---- MODULE Spec2Model ----
(***************************************************************************)
(* Model of connect_security_profile_updater.py: validate the CSV path,    *)
(* read the rows in file order, resolve every username with the search     *)
(* command, assign the security profile with the update command, count     *)
(* the outcomes and derive the process exit code.                          *)
(*                                                                         *)
(* A CSV field is a sequence of one-character strings, so that strip()     *)
(* and lower() are computed and not assumed.  Log entries keep the level,  *)
(* the kind of message and the row number; the message text is left out.   *)
(***************************************************************************)
EXTENDS Integers, Sequences, FiniteSets

VARIABLES
    fileExists,           \* os.path.exists(csv_file_path)
    fileReadable,         \* os.access(csv_file_path, os.R_OK)
    file,                 \* the rows csv.reader yields, in file order
    pc,                   \* position of the single thread of control
    pos,                  \* rows consumed from the reader so far (= row_num)
    username,             \* local of process_csv_file
    security_profile_id,  \* local of process_csv_file
    user_id,              \* local of process_csv_file
    success_count,
    error_count,
    log,                  \* the log sink, in order
    calls,                \* the aws commands run so far, in order
    last_reply,           \* what the latest subprocess.run produced
    profileOf,            \* remote service: security profile of each user id
    fault,                \* an exception was raised outside the per-row calls
    exit_code             \* process exit status, NoExit while running

vars == <<fileExists, fileReadable, file, pc, pos, username, security_profile_id,
          user_id, success_count, error_count, log, calls, last_reply,
          profileOf, fault, exit_code>>

(***************************************************************************)
(* Bounds and the input alphabet.                                          *)
(***************************************************************************)
MaxRows == 2

None == "None"
NoExit == 0 - 1

f_empty     == << >>
f_space     == <<" ">>
f_username  == <<"u","s","e","r","n","a","m","e">>
f_UserId    == <<"U","s","e","r","I","d">>
f_sp_userid == <<" ","u","s","e","r","i","d">>
f_bob       == <<"b","o","b">>
f_sp_bob    == <<" ","b","o","b">>
f_p1        == <<"p","1">>
f_sp_p1     == <<" ","p","1">>
f_p2        == <<"p","2">>
f_x         == <<"x">>

\* The rows a file is made of: a blank line, a one-column row, a header in
\* mixed case, valid rows (some needing strip, one with a third column, two
\* naming the same user), rows with an empty field (one of them starting
\* with a header alias), and a row whose first field is a header alias only
\* after stripping.
Rows ==
    { << >>,
      <<f_username>>,
      <<f_UserId, f_p1>>,
      <<f_bob, f_sp_p1>>,
      <<f_sp_bob, f_p2, f_x>>,
      <<f_space, f_p1>>,
      <<f_bob, f_empty>>,
      <<f_username, f_empty>>,
      <<f_sp_userid, f_p2>> }

RECURSIVE FilesUpTo(_)
FilesUpTo(n) ==
    IF n = 0 THEN { << >> }
    ELSE LET shorter == FilesUpTo(n - 1)
         IN  shorter \cup { Append(f, r) : f \in { g \in shorter : Len(g) = n - 1 }, r \in Rows }

Files == FilesUpTo(MaxRows)

UserIds == {"u1", "u2"}

\* aws connect search-users: the process fails, times out, prints something
\* that is not JSON, prints JSON of another shape, or prints a Users list.
\* A user record is represented by its Id field (None when the key is absent).
UsersLists == { << >>, <<"u1">>, <<"u2">>, <<"">>, <<None>>, <<"u1", "u2">> }

SearchReplies ==
    { [kind |-> k, users |-> << >>, applied |-> FALSE] :
          k \in {"CalledProcessError", "TimeoutExpired", "JSONDecodeError", "Exception"} }
    \cup { [kind |-> "ok", users |-> us, applied |-> FALSE] : us \in UsersLists }

\* aws connect update-user-security-profiles: on success the assignment is
\* applied; a process that is killed on timeout may or may not have applied it.
UpdateReplies ==
    { [kind |-> "ok", users |-> << >>, applied |-> TRUE],
      [kind |-> "CalledProcessError", users |-> << >>, applied |-> FALSE],
      [kind |-> "TimeoutExpired", users |-> << >>, applied |-> FALSE],
      [kind |-> "TimeoutExpired", users |-> << >>, applied |-> TRUE],
      [kind |-> "Exception", users |-> << >>, applied |-> FALSE] }

NoReply == [kind |-> "none", users |-> << >>, applied |-> FALSE]

(***************************************************************************)
(* Pure helpers.                                                           *)
(***************************************************************************)
Whitespace == {" ", "\t", "\n", "\r"}

\* str.lower() on the letters of the alphabet
LowerChar(c) ==
    CASE c = "U" -> "u"
      [] c = "I" -> "i"
      [] OTHER   -> c

lower(s) == [i \in 1..Len(s) |-> LowerChar(s[i])]

RECURSIVE lstrip(_)
lstrip(s) == IF s # << >> /\ Head(s) \in Whitespace THEN lstrip(Tail(s)) ELSE s

RECURSIVE rstrip(_)
rstrip(s) ==
    IF s # << >> /\ s[Len(s)] \in Whitespace THEN rstrip(SubSeq(s, 1, Len(s) - 1)) ELSE s

\* strip() forgotten: the field is used as read
strip_nothing(s) == s

\* str.strip()
strip(s) == rstrip(lstrip(s))

\* Python truthiness of an optional string
Truthy(x) == x \notin {None, ""}

HeaderAliases ==
    { <<"u","s","e","r","_","i","d">>,
      <<"u","s","e","r","i","d">>,
      <<"u","s","e","r","n","a","m","e">> }

\* line 140; only evaluated on a non-empty first_row
IsHeader(first_row) == lower(first_row[1]) \in HeaderAliases /\ Len(first_row) > 1

\* next(reader, None): some = FALSE stands for None
reader_next(f, p) ==
    IF p < Len(f) THEN [some |-> TRUE, row |-> f[p + 1]]
    ELSE [some |-> FALSE, row |-> << >>]

\* `not first_row` (line 135): None and the empty list are both falsy
NotRow(r) == ~r.some \/ r.row = << >>

\* the len(users) > 1 test is missing: the first record of several is taken
search_first_of_many(reply) ==
    IF reply.kind = "ok" /\ Len(reply.users) >= 1 /\ Truthy(reply.users[1])
    THEN [user_id |-> reply.users[1], error |-> None, raised |-> FALSE]
    ELSE [user_id |-> None, error |-> "error", raised |-> FALSE]

\* the except clause for json.JSONDecodeError (and the catch-all) is missing
search_decode_error_escapes(reply) ==
    IF reply.kind = "ok" /\ Len(reply.users) = 1 /\ Truthy(reply.users[1])
    THEN [user_id |-> reply.users[1], error |-> None, raised |-> FALSE]
    ELSE [user_id |-> None, error |-> "error", raised |-> reply.kind = "JSONDecodeError"]

\* lines 36-80: what search_user_by_username returns for a result of
\* subprocess.run; raised = TRUE would mean an exception leaves the function
search_user_by_username(reply) ==
    CASE reply.kind = "CalledProcessError" ->
             [user_id |-> None, error |-> "stderr or return code", raised |-> FALSE]
      [] reply.kind = "TimeoutExpired" ->
             [user_id |-> None, error |-> "Search command timed out", raised |-> FALSE]
      [] reply.kind = "JSONDecodeError" ->
             [user_id |-> None, error |-> "Failed to parse search response", raised |-> FALSE]
      [] reply.kind = "ok" /\ reply.users = << >> ->
             [user_id |-> None, error |-> "No user found", raised |-> FALSE]
      [] reply.kind = "ok" /\ Len(reply.users) > 1 ->
             [user_id |-> None, error |-> "Multiple users found", raised |-> FALSE]
      [] reply.kind = "ok" /\ Len(reply.users) = 1 /\ ~Truthy(reply.users[1]) ->
             [user_id |-> None, error |-> "User ID not found in response", raised |-> FALSE]
      [] reply.kind = "ok" /\ Len(reply.users) = 1 /\ Truthy(reply.users[1]) ->
             [user_id |-> reply.users[1], error |-> None, raised |-> FALSE]
      [] OTHER ->
             [user_id |-> None, error |-> "Unexpected error during search", raised |-> FALSE]

\* a timeout of the update command is taken for a success
update_timeout_is_success(reply) ==
    [success |-> reply.kind \in {"ok", "TimeoutExpired"}, error |-> None, raised |-> FALSE]

\* lines 83-111
update_user_security_profile(reply) ==
    CASE reply.kind = "ok" ->
             [success |-> TRUE, error |-> None, raised |-> FALSE]
      [] reply.kind = "CalledProcessError" ->
             [success |-> FALSE, error |-> "stderr or return code", raised |-> FALSE]
      [] reply.kind = "TimeoutExpired" ->
             [success |-> FALSE, error |-> "Command timed out", raised |-> FALSE]
      [] OTHER ->
             [success |-> FALSE, error |-> "Unexpected error", raised |-> FALSE]

\* lines 114-120
validate_csv_file(exists, readable) ==
    IF ~exists THEN "FileNotFoundError"
    ELSE IF ~readable THEN "PermissionError"
    ELSE "ok"

\* sys.exit(1) is missing from the PermissionError handler
except_handler_no_exit(exc) ==
    [event |-> "error", exit |-> IF exc = "PermissionError" THEN 0 ELSE 1]

\* lines 257-265: every handler logs an error and exits with status 1
except_handler(exc) ==
    [event |-> CASE exc = "FileNotFoundError" -> "File error"
                 [] exc = "PermissionError"   -> "Permission error"
                 [] OTHER                     -> "Unexpected error",
     exit  |-> 1]

\* the error count is not looked at
exit_status_ignores_errors(errors) == 0

\* lines 251-255: sys.exit(1) on errors, otherwise main returns (status 0)
exit_status(errors) == IF errors > 0 THEN 1 ELSE 0

Entry(level, event, row) == [level |-> level, event |-> event, row |-> row]

\* lines 43-47: the search command for a username (row: the row it is run for)
search_cmd(row, name) ==
    [op |-> "search-users", row |-> row, username |-> name, user_id |-> None,
     profile |-> << >>]

\* the update command is built from the previous value of the local user_id
update_cmd_stale_user(row, id, profile) ==
    [op |-> "update-user-security-profiles", row |-> row, username |-> << >>,
     user_id |-> user_id, profile |-> profile]

\* lines 88-93: the update command for a resolved user id and a profile id
update_cmd(row, id, profile) ==
    [op |-> "update-user-security-profiles", row |-> row, username |-> << >>,
     user_id |-> id, profile |-> profile]

(***************************************************************************)
(* State machine.                                                          *)
(***************************************************************************)
Init ==
    /\ fileExists \in BOOLEAN
    /\ fileReadable \in BOOLEAN
    /\ file \in Files
    /\ (~fileExists => (~fileReadable /\ file = << >>))
    /\ pc = "main"
    /\ pos = 0
    /\ username = << >>
    /\ security_profile_id = << >>
    /\ user_id = None
    /\ success_count = 0
    /\ error_count = 0
    /\ log = << >>
    /\ calls = << >>
    /\ last_reply = NoReply
    /\ profileOf = [u \in UserIds |-> << >>]
    /\ fault = FALSE
    /\ exit_code = NoExit

\* An exception reaches main's except clauses: log it and exit.
Raise(exc, entries) ==
    /\ log' = Append(entries, Entry("ERROR", except_handler(exc).event, 0))
    /\ exit_code' = except_handler(exc).exit
    /\ pc' = "exited"

\* lines 235-240: validate, then enter process_csv_file
Validate ==
    /\ pc = "main"
    /\ LET v == validate_csv_file(fileExists, fileReadable)
       IN  IF v = "ok"
           THEN /\ pc' = "process_csv_file"
                /\ UNCHANGED <<log, exit_code>>
           ELSE Raise(v, log)
    /\ UNCHANGED <<fileExists, fileReadable, file, pos, username, security_profile_id,
                   user_id, success_count, error_count, calls, last_reply,
                   profileOf, fault>>

\* lines 144-164 and 168-192 up to the search call: a data row is checked and,
\* when both trimmed fields are non-empty, the search command is started.
\* warn_short tells whether a row with fewer than 2 columns is logged: the
\* loop does (line 169), the first-row branch has no else for it (line 144).
ProcessRow(row, row_num, entries, warn_short) ==
    IF Len(row) >= 2
    THEN LET name == strip(row[1])
             profile == strip(row[2])
         IN  /\ username' = name
             /\ security_profile_id' = profile
             /\ IF name # << >> /\ profile # << >>
                THEN /\ calls' = Append(calls, search_cmd(row_num, name))
                     /\ pc' = "search"
                     /\ log' = entries
                ELSE /\ log' = Append(entries, Entry("WARNING", "Empty values, skipping", row_num))
                     /\ pc' = "loop"
                     /\ UNCHANGED calls
    ELSE /\ log' = IF warn_short
                   THEN Append(entries, Entry("WARNING", "Insufficient columns, skipping", row_num))
                   ELSE entries
         /\ pc' = "loop"
         /\ UNCHANGED <<username, security_profile_id, calls>>

\* line 130: what open() raises for the path; "ok" when it can succeed
open_error(exists, readable) ==
    IF ~exists THEN "FileNotFoundError"
    ELSE IF ~readable THEN "PermissionError"
    ELSE "ok"

\* lines 127-164: open the file, read the first row, detect the header
ReadFirstRow ==
    /\ pc = "process_csv_file"
    /\ \E raised \in BOOLEAN :
         IF raised \/ open_error(fileExists, fileReadable) # "ok"
         THEN \* open() or the first read raises: caught at lines 257-265
              /\ fault' = TRUE
              /\ Raise(IF open_error(fileExists, fileReadable) # "ok"
                       THEN open_error(fileExists, fileReadable) ELSE "Exception", log)
              /\ UNCHANGED <<pos, username, security_profile_id, calls>>
         ELSE LET first_row == reader_next(file, 0)
              IN  /\ fault' = fault
                  /\ exit_code' = exit_code
                  /\ pos' = IF first_row.some THEN 1 ELSE 0
                  /\ IF NotRow(first_row)
                     THEN /\ log' = Append(log, Entry("WARNING", "CSV file is empty",
                                                     IF first_row.some THEN 1 ELSE 0))
                          /\ pc' = "summary"
                          /\ UNCHANGED <<username, security_profile_id, calls>>
                     ELSE IF IsHeader(first_row.row)
                     THEN /\ log' = Append(log, Entry("INFO", "Detected header row, skipping", 1))
                          /\ pc' = "loop"
                          /\ UNCHANGED <<username, security_profile_id, calls>>
                     ELSE ProcessRow(first_row.row, 1, log, FALSE)
    /\ UNCHANGED <<fileExists, fileReadable, file, user_id, success_count, error_count,
                   last_reply, profileOf>>

\* lines 167-180: the for loop takes the next row, or the function returns
NextRow ==
    /\ pc = "loop"
    /\ \E raised \in BOOLEAN :
         IF raised
         THEN \* reading the next line raises (I/O or decoding error)
              /\ fault' = TRUE
              /\ Raise("Exception", log)
              /\ UNCHANGED <<pos, username, security_profile_id, calls>>
         ELSE LET nxt == reader_next(file, pos)
              IN  /\ fault' = fault
                  /\ exit_code' = exit_code
                  /\ IF ~nxt.some
                     THEN /\ pc' = "summary"
                          /\ UNCHANGED <<pos, log, username, security_profile_id, calls>>
                     ELSE /\ pos' = pos + 1
                          /\ ProcessRow(nxt.row, pos + 1, log, TRUE)
    /\ UNCHANGED <<fileExists, fileReadable, file, user_id, success_count, error_count,
                   last_reply, profileOf>>

\* lines 150-162 and 180-192: the search command ends; on a user id the
\* update command is started, otherwise the row has failed
SearchReturns ==
    /\ pc = "search"
    /\ \E reply \in SearchReplies :
         LET r == search_user_by_username(reply)
         IN  /\ last_reply' = reply
             /\ IF r.raised
                THEN /\ Raise("Exception", log)
                     /\ UNCHANGED <<user_id, calls, error_count>>
                ELSE /\ user_id' = r.user_id
                     /\ exit_code' = exit_code
                     /\ IF Truthy(r.user_id)
                        THEN /\ calls' = Append(calls, update_cmd(pos, r.user_id, security_profile_id))
                             /\ pc' = "update"
                             /\ UNCHANGED <<log, error_count>>
                        ELSE /\ log' = Append(log, Entry("ERROR", "FAILED: Could not find user", pos))
                             /\ error_count' = error_count + 1
                             /\ pc' = "loop"
                             /\ UNCHANGED calls
    /\ UNCHANGED <<fileExists, fileReadable, file, pos, username, security_profile_id,
                   success_count, profileOf, fault>>

\* lines 153-159 and 183-189: the update command ends and the row is counted
UpdateReturns ==
    /\ pc = "update"
    /\ \E reply \in UpdateReplies :
         LET r == update_user_security_profile(reply)
         IN  /\ last_reply' = reply
             /\ profileOf' = IF reply.applied
                             THEN LET cmd == calls[Len(calls)]
                                  IN  [profileOf EXCEPT ![cmd.user_id] = cmd.profile]
                             ELSE profileOf
             /\ IF r.raised
                THEN /\ Raise("Exception", log)
                     /\ UNCHANGED <<success_count, error_count>>
                ELSE /\ exit_code' = exit_code
                     /\ pc' = "loop"
                     /\ IF r.success
                        THEN /\ log' = Append(log, Entry("INFO", "SUCCESS: Updated user", pos))
                             /\ success_count' = success_count + 1
                             /\ UNCHANGED error_count
                        ELSE /\ log' = Append(log, Entry("ERROR", "FAILED: User", pos))
                             /\ error_count' = error_count + 1
                             /\ UNCHANGED success_count
    /\ UNCHANGED <<fileExists, fileReadable, file, pos, username, security_profile_id,
                   user_id, calls, fault>>

\* lines 243-255: the summary and the exit status
Summary ==
    /\ pc = "summary"
    /\ log' = Append(log, Entry(IF error_count > 0 THEN "WARNING" ELSE "INFO", "SUMMARY", 0))
    /\ exit_code' = exit_status(error_count)
    /\ pc' = "exited"
    /\ UNCHANGED <<fileExists, fileReadable, file, pos, username, security_profile_id,
                   user_id, success_count, error_count, calls, last_reply,
                   profileOf, fault>>

Next ==
    \/ Validate
    \/ ReadFirstRow
    \/ NextRow
    \/ SearchReturns
    \/ UpdateReturns
    \/ Summary

Spec == Init /\ [][Next]_vars

(***************************************************************************)
(* What the properties speak about, stated on the input and on what the    *)
(* run leaves behind (log, commands, counters), not on the operators above.*)
(***************************************************************************)
\* the field is empty once leading and trailing whitespace is removed
Blank(fld) == \A i \in 1..Len(fld) : fld[i] \in {" ", "\t", "\n", "\r"}

\* at least 2 columns, and the first two fields non-empty after trimming
WellFormed(row) == Len(row) >= 2 /\ ~Blank(row[1]) /\ ~Blank(row[2])

\* the first field is a header alias, compared without regard to case
AliasField(fld) ==
    fld \in { <<"u","s","e","r","n","a","m","e">>, <<"U","s","e","r","I","d">>,
              <<"u","s","e","r","i","d">>, <<"u","s","e","r","_","i","d">> }

HeaderShape(row) == Len(row) > 1 /\ AliasField(row[1])

HeaderDetected == \E k \in DOMAIN log : log[k].event = "Detected header row, skipping"

Succeeded(i) == \E k \in DOMAIN log : log[k].level = "INFO" /\ log[k].row = i /\ i >= 1
                                       /\ log[k].event = "SUCCESS: Updated user"

Failed(i) == \E k \in DOMAIN log : log[k].level = "ERROR" /\ log[k].row = i /\ i >= 1

Warned(i) == \E k \in DOMAIN log : log[k].level = "WARNING" /\ log[k].row = i /\ i >= 1

Summarised == \E k \in DOMAIN log : log[k].event = "SUMMARY"

SearchCalls(i) == { k \in DOMAIN calls : calls[k].op = "search-users" /\ calls[k].row = i }

UpdateCalls(i) ==
    { k \in DOMAIN calls : calls[k].op = "update-user-security-profiles" /\ calls[k].row = i }

InFlight == pc \in {"search", "update"}

\* the search reply carries exactly one record with a non-empty identifier
Resolves(reply) ==
    reply.kind = "ok" /\ Len(reply.users) = 1 /\ reply.users[1] \in UserIds

\* rows read so far that are data rows to attempt
AttemptedRows ==
    { i \in 1..pos : WellFormed(file[i]) /\ ~(i = 1 /\ HeaderDetected) }

\* rows read so far that were passed over: no command, not the header
SkippedRows ==
    { i \in 1..pos : SearchCalls(i) = {} /\ ~(i = 1 /\ HeaderDetected) }

HeaderCount == IF HeaderDetected THEN 1 ELSE 0

(***************************************************************************)
(* C1: the exit code is 0 exactly when validation passed, no exception     *)
(* reached the top level and no row failed (error_count = 0, zero attempted*)
(* rows included); it is 1 otherwise; there is no exit code before the end.*)
(***************************************************************************)
C1_ExitCode ==
    /\ (pc # "exited" => exit_code = NoExit)
    /\ (pc = "exited" =>
          /\ exit_code \in {0, 1}
          /\ (exit_code = 0 <=>
                /\ fileExists /\ fileReadable /\ ~fault
                /\ error_count = 0
                /\ \A i \in 1..Len(file) : ~Failed(i)))

C1_Witness ==
    pc = "exited" /\ exit_code = 1 /\ success_count = 1 /\ error_count = 1 /\ ~fault

(***************************************************************************)
(* C3: at every point success_count + error_count is the number of rows    *)
(* read so far that were attempted (well-formed, not the detected header)  *)
(* and have reached their outcome; a row that is not well-formed never     *)
(* causes a search or an update command.                                   *)
(***************************************************************************)
C3_CountersMatchAttempted ==
    /\ success_count + error_count =
          Cardinality(IF InFlight THEN AttemptedRows \ {pos} ELSE AttemptedRows)
    /\ \A i \in 1..Len(file) :
          ~WellFormed(file[i]) => (SearchCalls(i) = {} /\ UpdateCalls(i) = {})

C3_Witness ==
    /\ pc = "loop" /\ pos = 2
    /\ WellFormed(file[1]) /\ ~HeaderDetected
    /\ Len(file[2]) >= 2 /\ ~WellFormed(file[2])
    /\ success_count + error_count = 1

\* The step that ends a search without a resolved identifier, and what stays
\* true of a row whose search failed.
C4_UnresolvedStep ==
    (pc = "search" /\ ~Resolves(last_reply')) =>
        /\ error_count' = error_count + 1
        /\ success_count' = success_count
        /\ calls' = calls
        /\ pc' = "loop"
        /\ log' = Append(log, Entry("ERROR", "FAILED: Could not find user", pos))

C4_NoUpdateAfterFailedSearch ==
    \A k \in DOMAIN log :
        log[k].event = "FAILED: Could not find user" => UpdateCalls(log[k].row) = {}

(***************************************************************************)
(* C4: when the search of a row ends without a resolved user identifier    *)
(* (no record, several records, a record without identifier, a failed or   *)
(* timed-out command, an undecodable reply), the row ends in FAILURE:      *)
(* error_count grows by exactly 1, success_count is unchanged, and no      *)
(* update command is ever run for that row.                                *)
(***************************************************************************)
C4_UnresolvedSearchFails == [][C4_UnresolvedStep]_vars /\ []C4_NoUpdateAfterFailedSearch

C4_Witness ==
    /\ pc = "loop" /\ pos = 1
    /\ last_reply.kind = "ok" /\ Len(last_reply.users) = 2
    /\ error_count = 1 /\ success_count = 0
    /\ UpdateCalls(1) = {}

\* The step that ends a resolved search, and the step that ends an update.
C5_ResolvedStep ==
    (pc = "search" /\ Resolves(last_reply')) =>
        /\ pc' = "update"
        /\ UNCHANGED <<success_count, error_count>>

C5_UpdateStep ==
    pc = "update" =>
        /\ pc' = "loop"
        /\ IF last_reply'.kind = "ok"
           THEN /\ success_count' = success_count + 1
                /\ error_count' = error_count
                /\ log' = Append(log, Entry("INFO", "SUCCESS: Updated user", pos))
           ELSE /\ error_count' = error_count + 1
                /\ success_count' = success_count
                /\ log' = Append(log, Entry("ERROR", "FAILED: User", pos))

(***************************************************************************)
(* C5: when the search of a row (first or later) returns exactly one       *)
(* record with a non-empty identifier the update command is run, and when  *)
(* it succeeds the row ends in SUCCESS (success_count + 1, error_count     *)
(* unchanged); when it fails or times out the row ends in FAILURE          *)
(* (error_count + 1, success_count unchanged).                             *)
(***************************************************************************)
C5_UpdateOutcomeCounted == [][C5_ResolvedStep /\ C5_UpdateStep]_vars

C5_Witness ==
    /\ pc = "loop" /\ pos = 2
    /\ Succeeded(1) /\ Succeeded(2)
    /\ success_count = 2 /\ error_count = 0

(***************************************************************************)
(* C7: when the CSV path does not exist or is not readable the run ends    *)
(* with exit code 1 straight from validation: no row is read, no search    *)
(* and no update command is run, no counter changes and no summary is      *)
(* logged.                                                                 *)
(***************************************************************************)
C7_ValidationAborts ==
    (~fileExists \/ ~fileReadable) =>
        /\ pc \in {"main", "exited"}
        /\ pos = 0
        /\ calls = << >>
        /\ success_count = 0 /\ error_count = 0
        /\ ~Summarised
        /\ (pc = "exited" => exit_code = 1 /\ Len(log) = 1 /\ log[1].level = "ERROR")

C7_Witness ==
    pc = "exited" /\ fileExists /\ ~fileReadable /\ Len(file) = 2 /\ exit_code = 1

\* The step that ends a command, the rows after a failed row, and the ways a
\* run can end without a summary.
C9_CallStep ==
    InFlight =>
        /\ pc' \in {"update", "loop"}
        /\ exit_code' = NoExit
        /\ fault' = fault
        /\ pos' = pos
        /\ (last_reply'.kind # "ok" =>
              /\ pc' = "loop"
              /\ error_count' = error_count + 1
              /\ success_count' = success_count
              /\ Failed(pos)')

Reached(j) ==
    /\ j <= pos
    /\ (WellFormed(file[j]) => (Succeeded(j) \/ Failed(j)))

C9_LaterRowsReached ==
    pc = "summary" =>
        \A i \in 1..Len(file) : Failed(i) => \A j \in (i + 1)..Len(file) : Reached(j)

C9_AbortOnlyOutsideRows ==
    (pc = "exited" /\ ~Summarised) => (fault \/ ~fileExists \/ ~fileReadable)

(***************************************************************************)
(* C9: a failure of the search or of the update command of a row (process  *)
(* failure, timeout, undecodable reply, any other fault) makes that row a  *)
(* FAILURE and nothing more: the step that ends the command never ends the *)
(* run, every later row is still read and reaches its own outcome, and a   *)
(* run that ends without a summary was ended by a failed precondition or   *)
(* by a fault outside the per-row calls.                                   *)
(***************************************************************************)
C9_RowFailureContained ==
    [][C9_CallStep]_vars /\ [](C9_LaterRowsReached /\ C9_AbortOnlyOutsideRows)

C9_Witness ==
    /\ pc = "summary" /\ pos = 2
    /\ Failed(1) /\ Succeeded(2)
    /\ calls[1].op = "search-users" /\ calls[2].op = "search-users"

\* The order of the commands, their number per row, what an update command
\* carries, when a row is counted, and the final profile of a user.
IsUpdate(k) == calls[k].op = "update-user-security-profiles"

IsSearch(k) == calls[k].op = "search-users"

C10_FileOrder ==
    \A k, l \in DOMAIN calls : k < l => calls[k].row <= calls[l].row

C10_OneSearchAtMostOneUpdate ==
    \A i \in 1..Len(file) :
        /\ Cardinality(SearchCalls(i)) = (IF i \in AttemptedRows THEN 1 ELSE 0)
        /\ Cardinality(UpdateCalls(i)) <= 1

C10_UpdateFollowsOwnSearch ==
    \A k \in DOMAIN calls :
        /\ IsSearch(k) => calls[k].username = strip(file[calls[k].row][1])
        /\ IsUpdate(k) =>
              /\ k > 1 /\ IsSearch(k - 1) /\ calls[k - 1].row = calls[k].row
              /\ calls[k].user_id \in UserIds
              /\ calls[k].profile = strip(file[calls[k].row][2])

C10_CountedBeforeNextSearch ==
    pc = "search" =>
        /\ \A i \in 1..(pos - 1) : SearchCalls(i) # {} => (Succeeded(i) \/ Failed(i))
        /\ success_count + error_count = Cardinality({ k \in DOMAIN calls : IsSearch(k) }) - 1

UpdatedRows(u) == { calls[k].row : k \in { l \in DOMAIN calls : IsUpdate(l) /\ calls[l].user_id = u } }

LastRow(S) == CHOOSE i \in S : \A j \in S : j <= i

C10_LastWriteWins ==
    (pc # "update" /\ error_count = 0) =>
        \A u \in UserIds :
            IF UpdatedRows(u) = {} THEN profileOf[u] = << >>
            ELSE profileOf[u] = strip(file[LastRow(UpdatedRows(u))][2])

C10_UpdateStep ==
    (pc = "search" /\ pc' = "update") =>
        /\ Resolves(last_reply')
        /\ calls' = Append(calls, [op |-> "update-user-security-profiles", row |-> pos,
                                   username |-> << >>, user_id |-> last_reply'.users[1],
                                   profile |-> strip(file[pos][2])])

(***************************************************************************)
(* C10: the commands are run in file order; every attempted row gets       *)
(* exactly one search command and at most one update command; an update    *)
(* command directly follows the search of its own row, is run only when    *)
(* that search returned one user identifier, and carries that identifier   *)
(* and the row's trimmed profile id; a row is counted before the next      *)
(* search starts; and when no call has failed, the profile of a user is    *)
(* the one of the last row in file order that updated that user.           *)
(***************************************************************************)
C10_SequentialRows ==
    /\ [](/\ C10_FileOrder
          /\ C10_OneSearchAtMostOneUpdate
          /\ C10_UpdateFollowsOwnSearch
          /\ C10_CountedBeforeNextSearch
          /\ C10_LastWriteWins)
    /\ [][C10_UpdateStep]_vars

C10_Witness ==
    /\ pc = "exited" /\ exit_code = 0 /\ success_count = 2
    /\ Len(calls) = 4
    /\ calls[1].username = calls[3].username
    /\ calls[2].user_id = calls[4].user_id
    /\ calls[2].profile # calls[4].profile
    /\ profileOf[calls[4].user_id] = calls[4].profile

(***************************************************************************)
(* C2: when process_csv_file returns, every row of the file other than a   *)
(* detected header has ended in exactly one of SUCCESS, FAILURE or         *)
(* skipped, so success_count + error_count + skipped rows is the number of *)
(* data rows of the file, wherever the short, blank or empty-field rows    *)
(* are.                                                                    *)
(***************************************************************************)
C2_EveryRowAccounted ==
    pc = "summary" =>
        /\ success_count + error_count + Cardinality(SkippedRows) = Len(file) - HeaderCount
        /\ \A i \in 1..Len(file) :
              (i = 1 /\ HeaderDetected) \/ Succeeded(i) \/ Failed(i) \/ i \in SkippedRows

\* A row handled by the rules for data rows: read, then searched and counted
\* when it is well-formed, passed over otherwise.
TreatedAsData(i) ==
    /\ i <= pos
    /\ IF WellFormed(file[i])
       THEN Cardinality(SearchCalls(i)) = 1 /\ (Succeeded(i) \/ Failed(i))
       ELSE SearchCalls(i) = {} /\ ~Succeeded(i) /\ ~Failed(i)

(***************************************************************************)
(* C6: only the first row can be a header: it is discarded exactly when    *)
(* its first field is a header alias (whatever the case) and it has more   *)
(* than one column; otherwise it is a data row treated like the later      *)
(* rows, and every later row, header alias or not, is treated as data.     *)
(***************************************************************************)
C6_HeaderOnlyFirstRow ==
    pc = "summary" =>
        /\ (HeaderDetected <=> (Len(file) >= 1 /\ HeaderShape(file[1])))
        /\ (HeaderDetected => (SearchCalls(1) = {} /\ UpdateCalls(1) = {}))
        /\ \A i \in 1..Len(file) : (i > 1 \/ ~HeaderShape(file[1])) => TreatedAsData(i)

(***************************************************************************)
(* C8: every row skipped as invalid (fewer than 2 columns, or an empty     *)
(* first or second field after trimming) has a warning in the log, be it   *)
(* the first row or a later one.                                           *)
(***************************************************************************)
C8_SkippedRowsWarned ==
    \A i \in 1..pos :
        (~WellFormed(file[i]) /\ ~(i = 1 /\ HeaderDetected)) => Warned(i)

====
